---- MODULE Spec2Model ----
(***************************************************************************)
(* Model of the user API service of simple-crud (richer backend variant):  *)
(* the users table as the DDL in main declares it, the statements the      *)
(* handlers send to it, and the handlers getUsers, getUser, createUser,    *)
(* updateUser, deleteUser and healthDB with the envelope each of them      *)
(* writes, behind the enableCORS middleware, and the frontend's reading of *)
(* the list envelope.                                                      *)
(*                                                                         *)
(* Text values are sequences of one-character strings, so that ILIKE and   *)
(* ORDER BY can be computed character by character.  A time.Time value is  *)
(* a record [date, tod]: the calendar date in days and a flag that is 0    *)
(* for midnight UTC and 1 for any other time of day or offset.  The store  *)
(* clock counts days; a year of the model calendar has YearDays days.      *)
(***************************************************************************)
EXTENDS Integers, Sequences, FiniteSets, TLC

\* ------------------------------------------------------------------ bounds
MaxId == 2
MaxTicks == 1
YearDays == 2
Clock0 == 2 * YearDays
MaxClock == Clock0 + MaxTicks

VARIABLES users, nextId, clock, req, resp, status, storeErr, stmts, usersBefore,
          createdAt, createResp, deletedIds, headers, bodyWritten, inflight, lastWrite

vars == <<users, nextId, clock, req, resp, status, storeErr, stmts, usersBefore,
          createdAt, createResp, deletedIds, headers, bodyWritten, inflight, lastWrite>>

\* users, nextId, clock: the table, its id sequence and the store's date.
\* req, resp, status, headers, bodyWritten: the last request answered and its
\* answer on the wire (envelope, status line, headers, whether a body was
\* written).  storeErr, stmts: the error the store returned to the handler
\* of that request and the number of store calls it made.  usersBefore: the
\* table before the step that answered.  createdAt, createResp, deletedIds,
\* lastWrite: history of creates, deletes and writes.  inflight: the updates
\* between their UPDATE and their SELECT.

\* ------------------------------------------------------------ text values
Str_Al == <<"A", "l">>
Str_b_ == <<"b", "_">>
Str_aAtX == <<"a", "@", "x">>
Str_BAtX == <<"B", "@", "x">>
Str_admin == <<"a", "d", "m", "i", "n">>
Str_user == <<"u", "s", "e", "r">>
Str_empty == <<>>

\* ------------------------------------------------------------ http status
StatusOK == 200
StatusCreated == 201
StatusBadRequest == 400
StatusNotFound == 404
StatusInternalServerError == 500

\* --------------------------------------------------------------- messages
MsgNotFound == "User not found"
MsgFetched == "User fetched successfully"
MsgListFetched == "Users fetched successfully"
MsgCreated == "User created successfully"
MsgUpdated == "User updated successfully"
MsgDeleted == "User deleted successfully"
ErrDecode == "json: cannot decode request body"
ErrUnique == "pq: duplicate key value violates unique constraint \"users_email_key\""
ErrInt4Syntax == "pq: invalid input syntax for type integer"
ErrNone == ""

\* ------------------------------------------------------------- User value
\* The zero value of the Go struct User.
ZeroTime == [date |-> 0, tod |-> 0]

User(id, name, email, role, birth, age, timestamp) ==
    [id |-> id, name |-> name, email |-> email, role |-> role,
     birth |-> birth, age |-> age, timestamp |-> timestamp]

ZeroUser == User(0, Str_empty, Str_empty, Str_empty, ZeroTime, 0, 0)

\* --------------------------------------------------------------- envelope
NullData == [kind |-> "null", rows |-> <<>>]
UserData(u) == [kind |-> "user", rows |-> <<u>>]
\* A nil slice is encoded as JSON null, a non-nil slice as an array.
SliceData(s) == IF s = <<>> THEN NullData ELSE [kind |-> "list", rows |-> s]

sendJSONResponse(success, code, message, data) ==
    [success |-> success, code |-> code, message |-> message, data |-> data]

\* ------------------------------------------------------ the users table
\* age INTEGER GENERATED ALWAYS AS (EXTRACT(YEAR FROM AGE(birth))) STORED:
\* the whole years between birth and the current date.
AgeOf(birth, today) ==
    IF today >= birth THEN (today - birth) \div YearDays
                      ELSE 0 - ((birth - today) \div YearDays)

\* A time.Time bound to the DATE column keeps its calendar date only.
DateOf(t) == t.date

\* A DATE column scanned into a time.Time is midnight UTC of that date.
ScanDate(d) == [date |-> d, tod |-> 0]

\* A row of the table scanned into a User.
ScanRow(r) == User(r.id, r.name, r.email, r.role, ScanDate(r.birth), r.age, r.timestamp)

\* The value of the generated column when a row is written on day today.
GeneratedAge(birth, today) == AgeOf(birth, today)

\* ------------------------------------------------------------- id tokens
Digits == {"0", "1", "2", "3", "4", "5", "6", "7", "8", "9"}

DigitVal(c) ==
    CASE c = "0" -> 0 [] c = "1" -> 1 [] c = "2" -> 2 [] c = "3" -> 3
      [] c = "4" -> 4 [] c = "5" -> 5 [] c = "6" -> 6 [] c = "7" -> 7
      [] c = "8" -> 8 [] c = "9" -> 9

RECURSIVE DigitsVal(_)
DigitsVal(s) ==
    IF s = <<>> THEN 0
    ELSE 10 * DigitsVal(SubSeq(s, 1, Len(s) - 1)) + DigitVal(s[Len(s)])

\* The store's cast of the bound text parameter to the integer column id.
Int4Ok(tok) == tok # <<>> /\ \A i \in 1..Len(tok) : tok[i] \in Digits
Int4In(tok) == DigitsVal(tok)

\* -------------------------------------------------------- text operations
\* Code points of the characters that occur in the model's text values.
CharCode(c) ==
    CASE c = "%" -> 37 [] c = "@" -> 64 [] c = "A" -> 65 [] c = "B" -> 66
      [] c = "\\" -> 92 [] c = "_" -> 95 [] c = "a" -> 97 [] c = "b" -> 98
      [] c = "d" -> 100 [] c = "e" -> 101 [] c = "i" -> 105 [] c = "l" -> 108
      [] c = "m" -> 109 [] c = "n" -> 110 [] c = "r" -> 114 [] c = "s" -> 115
      [] c = "u" -> 117 [] c = "x" -> 120 [] c = "z" -> 122

LowerChar(c) == CASE c = "A" -> "a" [] c = "B" -> "b" [] OTHER -> c

LowerStr(s) == [i \in 1..Len(s) |-> LowerChar(s[i])]

\* ORDER BY on a text column: comparison by code point, position by position.
RECURSIVE StrLeq(_, _)
StrLeq(s, t) ==
    IF s = <<>> THEN TRUE
    ELSE IF t = <<>> THEN FALSE
    ELSE IF CharCode(Head(s)) < CharCode(Head(t)) THEN TRUE
    ELSE IF CharCode(Head(s)) > CharCode(Head(t)) THEN FALSE
    ELSE StrLeq(Tail(s), Tail(t))

\* text LIKE pattern: % matches any run of characters, _ any one character,
\* a backslash takes the next pattern character literally.
RECURSIVE Like(_, _)
Like(t, p) ==
    IF p = <<>> THEN t = <<>>
    ELSE IF Head(p) = "%" THEN Like(t, Tail(p)) \/ (t # <<>> /\ Like(Tail(t), p))
    ELSE IF Head(p) = "\\"
    THEN Len(p) >= 2 /\ t # <<>> /\ Head(t) = p[2] /\ Like(Tail(t), Tail(Tail(p)))
    ELSE IF Head(p) = "_" THEN t # <<>> /\ Like(Tail(t), Tail(p))
    ELSE t # <<>> /\ Head(t) = Head(p) /\ Like(Tail(t), Tail(p))

\* text ILIKE pattern: LIKE without regard to letter case.
ILike(t, p) == Like(LowerStr(t), LowerStr(p))

\* ------------------------------------------------------------- statements
\* SELECT ... FROM users WHERE id = $1
SelectById(tbl, tok) ==
    IF ~Int4Ok(tok) THEN [err |-> ErrInt4Syntax, rows |-> {}]
    ELSE [err |-> ErrNone, rows |-> {r \in tbl : r.id = Int4In(tok)}]

\* Mutant of EmailTaken: the email column without its UNIQUE constraint.
EmailTaken_NoConstraint(tbl, email, exceptId) == FALSE

\* email TEXT NOT NULL UNIQUE
EmailTaken(tbl, email, exceptId) ==
    \E r \in tbl : r.email = email /\ r.id # exceptId

\* Mutant of InsertUser: the id is one more than the largest id in the table
\* instead of the next value of the sequence.
InsertUser_MaxPlusOne(tbl, seq, now, name, email, role, birth) ==
    LET top == IF tbl = {} THEN 0
               ELSE CHOOSE m \in {r.id : r \in tbl} : \A r \in tbl : r.id <= m
        row == User(top + 1, name, email, role, DateOf(birth),
                    AgeOf(DateOf(birth), now), now)
    IN IF \E r \in tbl : r.email = email
       THEN [err |-> ErrUnique, tbl |-> tbl, row |-> row]
       ELSE [err |-> ErrNone, tbl |-> tbl \cup {row}, row |-> row]

\* INSERT INTO users (name, email, role, birth) VALUES ($1, $2, $3, $4)
\* RETURNING id, age, timestamp
InsertUser(tbl, seq, now, name, email, role, birth) ==
    LET row == User(seq, name, email, role, DateOf(birth),
                    GeneratedAge(DateOf(birth), now), now)
    IN IF EmailTaken(tbl, email, 0)
       THEN [err |-> ErrUnique, tbl |-> tbl, row |-> row]
       ELSE [err |-> ErrNone, tbl |-> tbl \cup {row}, row |-> row]

\* Mutant of UpdateRow: the update also stamps the row with the current time.
UpdateRow_Touch(r, now, name, email, role, birth) ==
    User(r.id, name, email, role, DateOf(birth), AgeOf(DateOf(birth), now), now)

\* UPDATE users SET name = $1, email = $2, role = $3, birth = $4 WHERE id = $5
UpdateRow(r, now, name, email, role, birth) ==
    User(r.id, name, email, role, DateOf(birth),
         GeneratedAge(DateOf(birth), now), r.timestamp)

\* Mutant of UpdateUserStmt: an update that matches no row inserts one.
UpdateUserStmt_Upsert(tbl, now, name, email, role, birth, tok) ==
    IF ~Int4Ok(tok) THEN [err |-> ErrInt4Syntax, tbl |-> tbl, affected |-> 0]
    ELSE LET hit == {r \in tbl : r.id = Int4In(tok)}
             new == User(Int4In(tok), name, email, role, DateOf(birth),
                         AgeOf(DateOf(birth), now), now)
         IN IF \E r \in tbl : r.email = email /\ r.id # Int4In(tok)
            THEN [err |-> ErrUnique, tbl |-> tbl, affected |-> 0]
            ELSE [err |-> ErrNone, tbl |-> (tbl \ hit) \cup {new}, affected |-> 1]

UpdateUserStmt(tbl, now, name, email, role, birth, tok) ==
    IF ~Int4Ok(tok) THEN [err |-> ErrInt4Syntax, tbl |-> tbl, affected |-> 0]
    ELSE LET hit == {r \in tbl : r.id = Int4In(tok)}
         IN IF hit = {} THEN [err |-> ErrNone, tbl |-> tbl, affected |-> 0]
            ELSE IF EmailTaken(tbl, email, Int4In(tok))
            THEN [err |-> ErrUnique, tbl |-> tbl, affected |-> 0]
            ELSE [err |-> ErrNone,
                  tbl |-> (tbl \ hit) \cup
                          {UpdateRow(r, now, name, email, role, birth) : r \in hit},
                  affected |-> Cardinality(hit)]

\* Mutant of DeleteUserStmt: the statement without its WHERE clause.
DeleteUserStmt_All(tbl, tok) ==
    IF ~Int4Ok(tok) THEN [err |-> ErrInt4Syntax, tbl |-> tbl, affected |-> 0]
    ELSE [err |-> ErrNone, tbl |-> {}, affected |-> Cardinality(tbl)]

\* DELETE FROM users WHERE id = $1
DeleteUserStmt(tbl, tok) ==
    IF ~Int4Ok(tok) THEN [err |-> ErrInt4Syntax, tbl |-> tbl, affected |-> 0]
    ELSE LET hit == {r \in tbl : r.id = Int4In(tok)}
         IN [err |-> ErrNone, tbl |-> tbl \ hit, affected |-> Cardinality(hit)]

\* SELECT ... FROM users [WHERE (name ILIKE $1 OR email ILIKE $1 OR role ILIKE $1)]
\* ORDER BY <field> <dir>: the matching rows in every order the ORDER BY allows.
RowMatches(r, q) ==
    q.conditions = <<>> \/ ILike(r.name, q.args[1]) \/ ILike(r.email, q.args[1])
                        \/ ILike(r.role, q.args[1])

KeyLeq(field, r1, r2) ==
    CASE field = "name" -> StrLeq(r1.name, r2.name)
      [] field = "email" -> StrLeq(r1.email, r2.email)
      [] field = "role" -> StrLeq(r1.role, r2.role)
      [] field = "age" -> r1.age <= r2.age
      [] field = "timestamp" -> r1.timestamp <= r2.timestamp

InOrder(q, r1, r2) ==
    IF q.orderDir = "DESC" THEN KeyLeq(q.orderField, r2, r1)
                           ELSE KeyLeq(q.orderField, r1, r2)

SelectUsers(tbl, q) ==
    LET hit == {r \in tbl : RowMatches(r, q)}
        n == Cardinality(hit)
    IN {s \in [1..n -> hit] :
          /\ \A i, j \in 1..n : i # j => s[i] # s[j]
          /\ \A i, j \in 1..n : i < j => InOrder(q, s[i], s[j])}

\* ---------------------------------------------------------------- inputs
\* Request bodies: malformed is a body json.Decoder rejects; the other
\* fields are what Decode leaves in the User struct.
Body(malformed, id, name, email, role, birth, age, timestamp) ==
    [malformed |-> malformed, user |-> User(id, name, email, role, birth, age, timestamp)]

Bodies ==
    { Body(FALSE, 0, Str_Al, Str_aAtX, Str_admin, [date |-> 1, tod |-> 0], 0, 0),
      Body(FALSE, 2, Str_b_, Str_BAtX, Str_empty, [date |-> 2, tod |-> 1], 50, 99),
      Body(FALSE, 0, Str_b_, Str_aAtX, Str_user, [date |-> 2, tod |-> 0], 0, 0),
      Body(TRUE, 0, Str_empty, Str_empty, Str_empty, ZeroTime, 0, 0) }

\* Two bodies with different emails and the body that cannot be decoded.
FewBodies == {b \in Bodies : b.malformed \/ b.user.role # Str_user}

\* Two bodies that decode, with different emails.
RaceBodies == {b \in FewBodies : ~b.malformed}

NoBody == Body(FALSE, 0, Str_empty, Str_empty, Str_empty, ZeroTime, 0, 0)

IdTokens == {<<d>> : d \in {c \in Digits : DigitVal(c) \in 1..MaxId}} \cup {<<"x">>}

NoToken == <<>>

\* Query parameters of the list request; "" is an absent parameter.
Searches == {Str_empty, <<"a">>, <<"B">>, <<"_">>, <<"%">>, <<"\\", "_">>, <<"z">>}
Sorts == {"", "name", "email", "role", "age", "timestamp", "Name"}
Orders == {"", "asc", "desc", "DESC"}

ListParams ==
    {<<s, "", "">> : s \in Searches} \cup
    {<<s, f, o>> : s \in {Str_empty, <<"a">>}, f \in Sorts, o \in Orders}

FewListParams == {<<Str_empty, "", "">>, <<(<<"a">>), "name", "desc">>}

\* Mutant of Decode: a body that cannot be decoded yields the zero User and
\* no error.
Decode_Lenient(body) ==
    IF body.malformed THEN [err |-> ErrNone, user |-> ZeroUser]
    ELSE [err |-> ErrNone, user |-> body.user]

\* json.NewDecoder(r.Body).Decode(&user)
Decode(body) ==
    IF body.malformed THEN [err |-> ErrDecode, user |-> ZeroUser]
    ELSE [err |-> ErrNone, user |-> body.user]

\* Faults of the environment during one request: db is the number of the
\* handler's store call that fails with a connection error before it runs
\* (0: none does), enc tells that the data of the envelope cannot be
\* marshalled, so that the first Encode in sendJSONResponse fails.
NoFault == [db |-> 0, enc |-> FALSE]

Faults(calls) ==
    {NoFault, [db |-> 0, enc |-> TRUE]} \cup {[db |-> k, enc |-> FALSE] : k \in 1..calls}

Request(op, tok, body, search, sort, order, f) ==
    [op |-> op, id |-> tok, body |-> body, search |-> search,
     sort |-> sort, order |-> order, at |-> clock, fault |-> f]

\* lastWrite is kept for the updates served in two steps (updateUserWrite,
\* updateUserReread): the record written by the last of their UPDATE
\* statements, as long as it is stored. NoWrite: there is none.
NoWrite == [id |-> 0, user |-> ZeroUser]

\* ----------------------------------------------------------------- state
Init ==
    /\ users = {}
    /\ nextId = 1
    /\ clock = Clock0
    /\ req = [op |-> "none", id |-> NoToken, body |-> NoBody, search |-> Str_empty,
              sort |-> "", order |-> "", at |-> Clock0, fault |-> NoFault]
    /\ resp = sendJSONResponse(TRUE, StatusOK, ErrNone, NullData)
    /\ status = StatusOK
    /\ storeErr = ErrNone
    /\ stmts = 0
    /\ usersBefore = {}
    /\ createdAt = {}
    /\ createResp = {}
    /\ deletedIds = {}
    /\ headers = {}
    /\ bodyWritten = FALSE
    /\ inflight = <<>>
    /\ lastWrite = NoWrite

\* ------------------------------------------------------------- transport
ErrConn == "dial tcp: connect: connection refused"
ErrScan == "sql: Scan error on column index 6"
MsgEncodeFailed == "Failed to encode response"
MsgPingFailed == "Database connection failed: "
MsgHealthy == "Database connection healthy"

\* The fallback envelope of sendJSONResponse.
FallbackEnvelope ==
    sendJSONResponse(FALSE, StatusInternalServerError, MsgEncodeFailed, NullData)

\* json.NewEncoder(w).Encode(response) fails when the data cannot be
\* marshalled; an envelope whose data is null always encodes.
EncodeFails(env, f) == f.enc /\ env.data # NullData

\* sendJSONResponse on the wire: WriteHeader(code) fixes the status line, a
\* second WriteHeader has no effect; the body is the envelope, or the
\* fallback envelope when the first Encode failed.
WriteResponse(env, f) ==
    /\ status' = env.code
    /\ resp' = IF EncodeFails(env, f) THEN FallbackEnvelope ELSE env
    /\ bodyWritten' = TRUE

\* The headers enableCORS sets on every response.
CORSHeaders ==
    { <<"Access-Control-Allow-Origin", "*">>,
      <<"Access-Control-Allow-Methods", "GET, POST, PUT, DELETE, OPTIONS">>,
      <<"Access-Control-Allow-Headers", "Content-Type">> }

\* The envelope variable of a response without a body.
NoEnvelope == sendJSONResponse(TRUE, StatusOK, ErrNone, NullData)

\* Mutant of enableCORS: the headers are set on the preflight answer only.
enableCORS_PreflightOnly(method, next) ==
    IF method = "OPTIONS"
    THEN /\ headers' = CORSHeaders
         /\ status' = StatusOK
         /\ bodyWritten' = FALSE
         /\ resp' = NoEnvelope
         /\ req' = Request("options", NoToken, NoBody, Str_empty, "", "", NoFault)
         /\ storeErr' = ErrNone
         /\ stmts' = 0
         /\ usersBefore' = users
         /\ UNCHANGED <<users, nextId, clock, createdAt, createResp, deletedIds,
                        inflight, lastWrite>>
    ELSE /\ headers' = {}
         /\ next

\* enableCORS: the three headers are set before anything else; a request
\* with method OPTIONS is answered 200 without a body and next is not
\* called. No handler removes a header.
enableCORS(method, next) ==
    /\ headers' = CORSHeaders
    /\ IF method = "OPTIONS"
       THEN /\ status' = StatusOK
            /\ bodyWritten' = FALSE
            /\ resp' = NoEnvelope
            /\ req' = Request("options", NoToken, NoBody, Str_empty, "", "", NoFault)
            /\ storeErr' = ErrNone
            /\ stmts' = 0
            /\ usersBefore' = users
            /\ UNCHANGED <<users, nextId, clock, createdAt, createResp, deletedIds,
                        inflight, lastWrite>>
       ELSE next

jsonContentTypeMiddleware(next) == next

\* The router: a route is served by its handler when the method of the
\* request is the method of the route; otherwise mux answers 405 without a
\* body.
router(method, route, handler) ==
    IF method = route THEN handler
    ELSE /\ status' = 405
         /\ bodyWritten' = FALSE
         /\ resp' = NoEnvelope
         /\ req' = Request("none", NoToken, NoBody, Str_empty, "", "", NoFault)
         /\ storeErr' = ErrNone
         /\ stmts' = 0
         /\ usersBefore' = users
         /\ UNCHANGED <<users, nextId, clock, createdAt, createResp, deletedIds,
                        inflight, lastWrite>>

\* enhancedRouter := enableCORS(jsonContentTypeMiddleware(router))
enhancedRouter(method, route, handler) ==
    enableCORS(method, jsonContentTypeMiddleware(router(method, route, handler)))

\* --------------------------------------------------------------- handlers
\* QueryRow(...).Scan(...): the first row of the result, or sql.ErrNoRows.
ErrNoRows == "sql: no rows in result set"

QueryRowScan(q) ==
    IF q.err # ErrNone THEN [err |-> q.err, user |-> ZeroUser]
    ELSE IF q.rows = {} THEN [err |-> ErrNoRows, user |-> ZeroUser]
    ELSE [err |-> ErrNone, user |-> ScanRow(CHOOSE r \in q.rows : TRUE)]

\* getUsers: the query text and arguments built from the parameters.
validSorts == {"name", "email", "role", "age", "timestamp"}

\* Mutant of orderDir: the order parameter is compared without regard to case.
orderDir_FoldCase(order) == IF order \in {"desc", "DESC"} THEN "DESC" ELSE "ASC"

orderDir(order) == IF order = "desc" THEN "DESC" ELSE "ASC"

\* Mutant of orderBy: the default sort takes its direction from the order
\* parameter.
orderBy_DefaultFollowsOrder(sortBy, order) ==
    IF sortBy \in validSorts THEN [field |-> sortBy, dir |-> orderDir(order)]
    ELSE [field |-> "timestamp", dir |-> IF order = "asc" THEN "ASC" ELSE "DESC"]

\* The ORDER BY clause of getUsers.
orderBy(sortBy, order) ==
    IF sortBy \in validSorts THEN [field |-> sortBy, dir |-> orderDir(order)]
    ELSE [field |-> "timestamp", dir |-> "DESC"]

\* strings.Join(conditions, " AND ")
RECURSIVE JoinAnd(_)
JoinAnd(conditions) ==
    IF conditions = <<>> THEN ""
    ELSE IF Len(conditions) = 1 THEN conditions[1]
    ELSE conditions[1] \o " AND " \o JoinAnd(Tail(conditions))

SearchCondition == "(name ILIKE $1 OR email ILIKE $1 OR role ILIKE $1)"

\* Mutant of QueryText: the sort parameter is written into the ORDER BY
\* clause as it came.
QueryText_RawSort(search, sortBy, order) ==
    "SELECT id, name, email, role, birth, age, timestamp FROM users"
    \o (IF search # Str_empty THEN " WHERE " \o JoinAnd(<<SearchCondition>>) ELSE "")
    \o (IF sortBy # ""
        THEN " ORDER BY " \o sortBy \o " " \o orderDir(order)
        ELSE " ORDER BY timestamp DESC")

\* The text of the list query.
QueryText(search, sortBy, order) ==
    "SELECT id, name, email, role, birth, age, timestamp FROM users"
    \o (IF search # Str_empty THEN " WHERE " \o JoinAnd(<<SearchCondition>>) ELSE "")
    \o (IF sortBy \in validSorts
        THEN " ORDER BY " \o orderBy(sortBy, order).field \o " " \o orderBy(sortBy, order).dir
        ELSE " ORDER BY timestamp DESC")

BuildQuery(search, sortBy, order) ==
    [text |-> QueryText(search, sortBy, order),
     conditions |-> IF search # Str_empty
                    THEN <<"(name ILIKE $1 OR email ILIKE $1 OR role ILIKE $1)">>
                    ELSE <<>>,
     args |-> IF search # Str_empty THEN <<(<<"%">> \o search \o <<"%">>)>> ELSE <<>>,
     orderField |-> orderBy(sortBy, order).field,
     orderDir |-> orderBy(sortBy, order).dir]

\* The error, if any, that the store calls of getUsers return to it: 1 is
\* db.Query, 2 is rows.Scan of the first row. Call 3 is a rows.Next() that
\* ends the iteration early; its error stays in rows.Err(), which getUsers
\* does not read.
getUsersError(rows, f) ==
    IF f.db = 1 THEN ErrConn
    ELSE IF f.db = 2 /\ rows # <<>> THEN ErrScan
    ELSE ErrNone

getUsersEnvelope(err, rows) ==
    IF err # ErrNone
    THEN sendJSONResponse(FALSE, StatusInternalServerError, err, NullData)
    ELSE sendJSONResponse(TRUE, StatusOK, MsgListFetched,
                          SliceData([i \in 1..Len(rows) |-> ScanRow(rows[i])]))

\* The rows the loop over rows.Next() appends: all the rows of the result,
\* or fewer when the store fails during the iteration.
RowsRead(rows, f) ==
    IF f.db = 3 /\ rows # <<>>
    THEN {SubSeq(rows, 1, n) : n \in 0..(Len(rows) - 1)}
    ELSE {rows}

\* GET /api/go/users
getUsers(search, sortBy, order, f) ==
    /\ \E rows \in SelectUsers(users, BuildQuery(search, sortBy, order)) :
          \E read \in RowsRead(rows, f) :
             /\ WriteResponse(getUsersEnvelope(getUsersError(rows, f), read), f)
             /\ storeErr' = getUsersError(rows, f)
    /\ stmts' = 1
    /\ req' = Request("list", NoToken, NoBody, search, sortBy, order, f)
    /\ usersBefore' = users
    /\ UNCHANGED <<users, nextId, clock, createdAt, createResp, deletedIds,
                        inflight, lastWrite>>

getUserEnvelope(got) ==
    IF got.err = ErrNoRows
    THEN sendJSONResponse(FALSE, StatusNotFound, MsgNotFound, NullData)
    ELSE IF got.err # ErrNone
    THEN sendJSONResponse(FALSE, StatusInternalServerError, got.err, NullData)
    ELSE sendJSONResponse(TRUE, StatusOK, MsgFetched, UserData(got.user))

\* Mutant of getUser: the read brings the stored age of the row up to date.
getUser_RefreshAge(tok, f) ==
    LET got == IF f.db = 1 THEN [err |-> ErrConn, user |-> ZeroUser]
               ELSE QueryRowScan(SelectById(users, tok))
    IN /\ req' = Request("get", tok, NoBody, Str_empty, "", "", f)
       /\ WriteResponse(getUserEnvelope(got), f)
       /\ storeErr' = got.err
       /\ stmts' = 1
       /\ usersBefore' = users
       /\ users' = {[r EXCEPT !.age = IF Int4Ok(tok) /\ r.id = Int4In(tok)
                                         THEN AgeOf(r.birth, clock) ELSE r.age] : r \in users}
       /\ UNCHANGED <<nextId, clock, createdAt, createResp, deletedIds, inflight, lastWrite>>

\* GET /api/go/users/{id}
getUser(tok, f) ==
    LET got == IF f.db = 1 THEN [err |-> ErrConn, user |-> ZeroUser]
               ELSE QueryRowScan(SelectById(users, tok))
    IN /\ req' = Request("get", tok, NoBody, Str_empty, "", "", f)
       /\ WriteResponse(getUserEnvelope(got), f)
       /\ storeErr' = got.err
       /\ stmts' = 1
       /\ usersBefore' = users
       /\ UNCHANGED <<users, nextId, clock, createdAt, createResp, deletedIds,
                        inflight, lastWrite>>

\* The User that createUser returns: the decoded body with the three
\* RETURNING columns id, age, timestamp scanned over it.
CreatedUser(u, row) ==
    User(row.id, u.name, u.email, u.role, u.birth, row.age, row.timestamp)

\* Mutant of createUserEnvelope: a store error of the insert is reported as
\* a conflict with a message of the service.
createUserEnvelope_Conflict(d, ins) ==
    IF d.err # ErrNone
    THEN sendJSONResponse(FALSE, StatusBadRequest, d.err, NullData)
    ELSE IF ins.err # ErrNone
    THEN sendJSONResponse(FALSE, 409, "Email already exists", NullData)
    ELSE sendJSONResponse(TRUE, StatusCreated, MsgCreated,
                          UserData(CreatedUser(d.user, ins.row)))

createUserEnvelope(d, ins) ==
    IF d.err # ErrNone
    THEN sendJSONResponse(FALSE, StatusBadRequest, d.err, NullData)
    ELSE IF ins.err # ErrNone
    THEN sendJSONResponse(FALSE, StatusInternalServerError, ins.err, NullData)
    ELSE sendJSONResponse(TRUE, StatusCreated, MsgCreated,
                          UserData(CreatedUser(d.user, ins.row)))

\* POST /api/go/users
createUser(body, f) ==
    LET d == Decode(body)
        u == d.user
        run == InsertUser(users, nextId, clock, u.name, u.email, u.role, u.birth)
        ins == IF f.db = 1 THEN [err |-> ErrConn, tbl |-> users, row |-> run.row]
               ELSE run
        out == CreatedUser(u, ins.row)
    IN /\ req' = Request("create", NoToken, body, Str_empty, "", "", f)
       /\ usersBefore' = users
       /\ WriteResponse(createUserEnvelope(d, ins), f)
       /\ IF d.err # ErrNone
          THEN /\ storeErr' = ErrNone
               /\ stmts' = 0
               /\ UNCHANGED <<users, nextId, createdAt, createResp>>
          ELSE /\ storeErr' = ins.err
               /\ stmts' = 1
               /\ users' = ins.tbl
               /\ IF f.db = 1
                  THEN UNCHANGED nextId
                  ELSE nextId <= MaxId /\ nextId' = nextId + 1
               /\ IF ins.err # ErrNone
                  THEN UNCHANGED <<createdAt, createResp>>
                  ELSE /\ createdAt' = createdAt \cup {[id |-> out.id, timestamp |-> out.timestamp]}
                       /\ createResp' = createResp \cup {out}
       /\ UNCHANGED <<clock, deletedIds, inflight, lastWrite>>

\* Mutant of RereadUser: the decoded body is returned with the path id, as
\* the minimal variant of updateUser does.
RereadUser_EchoBody(tbl, tok, u) ==
    [err |-> ErrNone, user |-> [u EXCEPT !.id = Int4In(tok)]]

\* The second statement of updateUser: the row is read again and scanned
\* over the decoded body.
RereadUser(tbl, tok, u) == QueryRowScan(SelectById(tbl, tok))

\* Mutant of updateUserEnvelope: when the second statement fails the error
\* envelope carries the decoded body.
updateUserEnvelope_DataOnError(d, upd, got) ==
    IF d.err # ErrNone
    THEN sendJSONResponse(FALSE, StatusBadRequest, d.err, NullData)
    ELSE IF upd.err # ErrNone
    THEN sendJSONResponse(FALSE, StatusInternalServerError, upd.err, NullData)
    ELSE IF upd.affected = 0
    THEN sendJSONResponse(FALSE, StatusNotFound, MsgNotFound, NullData)
    ELSE IF got.err # ErrNone
    THEN sendJSONResponse(FALSE, StatusInternalServerError, got.err, UserData(d.user))
    ELSE sendJSONResponse(TRUE, StatusOK, MsgUpdated, UserData(got.user))

updateUserEnvelope(d, upd, got) ==
    IF d.err # ErrNone
    THEN sendJSONResponse(FALSE, StatusBadRequest, d.err, NullData)
    ELSE IF upd.err # ErrNone
    THEN sendJSONResponse(FALSE, StatusInternalServerError, upd.err, NullData)
    ELSE IF upd.affected = 0
    THEN sendJSONResponse(FALSE, StatusNotFound, MsgNotFound, NullData)
    ELSE IF got.err # ErrNone
    THEN sendJSONResponse(FALSE, StatusInternalServerError, got.err, NullData)
    ELSE sendJSONResponse(TRUE, StatusOK, MsgUpdated, UserData(got.user))

\* Mutant of updateUserArgs: a body without a role is written with the role
\* "user".
updateUserArgs_DefaultRole(u, tok) ==
    [name |-> u.name, email |-> u.email,
     role |-> IF u.role = Str_empty THEN Str_user ELSE u.role,
     birth |-> u.birth, id |-> tok]

\* The arguments updateUser binds to its UPDATE statement.
updateUserArgs(u, tok) ==
    [name |-> u.name, email |-> u.email, role |-> u.role, birth |-> u.birth, id |-> tok]

\* PUT /api/go/users/{id}
updateUser(tok, body, f) ==
    LET d == Decode(body)
        u == d.user
        a == updateUserArgs(u, tok)
        upd == IF f.db = 1 THEN [err |-> ErrConn, tbl |-> users, affected |-> 0]
               ELSE UpdateUserStmt(users, clock, a.name, a.email, a.role, a.birth, a.id)
        got == IF f.db = 2 THEN [err |-> ErrConn, user |-> ZeroUser]
               ELSE RereadUser(upd.tbl, tok, u)
        reread == d.err = ErrNone /\ upd.err = ErrNone /\ upd.affected # 0
    IN /\ req' = Request("update", tok, body, Str_empty, "", "", f)
       /\ usersBefore' = users
       /\ WriteResponse(updateUserEnvelope(d, upd, got), f)
       /\ storeErr' = IF d.err # ErrNone THEN ErrNone
                      ELSE IF upd.err # ErrNone THEN upd.err
                      ELSE IF reread THEN got.err ELSE ErrNone
       /\ stmts' = IF d.err # ErrNone THEN 0 ELSE IF reread THEN 2 ELSE 1
       /\ users' = IF d.err # ErrNone THEN users ELSE upd.tbl
       /\ createResp' = IF reread THEN {c \in createResp : c.id # Int4In(tok)}
                        ELSE createResp
       /\ UNCHANGED <<nextId, clock, createdAt, deletedIds, inflight, lastWrite>>

\* updateUser is two statements without a transaction: requests of other
\* connections are served between its UPDATE and its SELECT. inflight holds
\* the updates whose UPDATE affected a row and whose SELECT has not run.
MaxInflight == 2

\* updateUser up to the result of the UPDATE: the answer is sent here when
\* the body does not decode, the UPDATE fails or it affects no row.
updateUserWrite(tok, body) ==
    LET d == Decode(body)
        u == d.user
        a == updateUserArgs(u, tok)
        upd == UpdateUserStmt(users, clock, a.name, a.email, a.role, a.birth, a.id)
        reread == d.err = ErrNone /\ upd.err = ErrNone /\ upd.affected # 0
    IN IF reread
       THEN /\ Len(inflight) < MaxInflight
            /\ users' = upd.tbl
            /\ inflight' = Append(inflight, [id |-> tok, body |-> body])
            /\ lastWrite' = [id |-> Int4In(tok), user |-> u]
            /\ createResp' = {c \in createResp : c.id # Int4In(tok)}
            /\ UNCHANGED <<nextId, clock, req, resp, status, storeErr, stmts, usersBefore,
                           createdAt, deletedIds, bodyWritten>>
       ELSE /\ req' = Request("update", tok, body, Str_empty, "", "", NoFault)
            /\ usersBefore' = users
            /\ WriteResponse(updateUserEnvelope(d, upd, [err |-> ErrNone, user |-> ZeroUser]),
                             NoFault)
            /\ storeErr' = IF d.err # ErrNone THEN ErrNone ELSE upd.err
            /\ stmts' = IF d.err # ErrNone THEN 0 ELSE 1
            /\ UNCHANGED <<users, nextId, clock, createdAt, createResp, deletedIds,
                           inflight, lastWrite>>

\* Mutant of updateUserReread: the answer carries the body of the request
\* with the path id instead of the row read.
updateUserReread_EchoBody(i) ==
    LET e == inflight[i]
        d == Decode(e.body)
        got == [err |-> ErrNone, user |-> [d.user EXCEPT !.id = Int4In(e.id)]]
    IN /\ req' = Request("update", e.id, e.body, Str_empty, "", "", NoFault)
       /\ usersBefore' = users
       /\ WriteResponse(updateUserEnvelope(d, [err |-> ErrNone, tbl |-> users, affected |-> 1],
                                           got), NoFault)
       /\ storeErr' = got.err
       /\ stmts' = 2
       /\ inflight' = SubSeq(inflight, 1, i - 1) \o SubSeq(inflight, i + 1, Len(inflight))
       /\ UNCHANGED <<users, nextId, clock, createdAt, createResp, deletedIds,
                      headers, lastWrite>>

\* updateUser from its SELECT on: the row is read as it is now and the
\* answer is sent.
updateUserReread(i) ==
    LET e == inflight[i]
        d == Decode(e.body)
        got == RereadUser(users, e.id, d.user)
    IN /\ req' = Request("update", e.id, e.body, Str_empty, "", "", NoFault)
       /\ usersBefore' = users
       /\ WriteResponse(updateUserEnvelope(d, [err |-> ErrNone, tbl |-> users, affected |-> 1],
                                           got), NoFault)
       /\ storeErr' = got.err
       /\ stmts' = 2
       /\ inflight' = SubSeq(inflight, 1, i - 1) \o SubSeq(inflight, i + 1, Len(inflight))
       /\ UNCHANGED <<users, nextId, clock, createdAt, createResp, deletedIds,
                      headers, lastWrite>>

\* Mutant of deleteUserEnvelope: a delete that removed the record is
\* answered 204 No Content.
deleteUserEnvelope_NoContent(del) ==
    IF del.err # ErrNone
    THEN sendJSONResponse(FALSE, StatusInternalServerError, del.err, NullData)
    ELSE IF del.affected = 0
    THEN sendJSONResponse(FALSE, StatusNotFound, MsgNotFound, NullData)
    ELSE sendJSONResponse(TRUE, 204, MsgDeleted, NullData)

deleteUserEnvelope(del) ==
    IF del.err # ErrNone
    THEN sendJSONResponse(FALSE, StatusInternalServerError, del.err, NullData)
    ELSE IF del.affected = 0
    THEN sendJSONResponse(FALSE, StatusNotFound, MsgNotFound, NullData)
    ELSE sendJSONResponse(TRUE, StatusOK, MsgDeleted, NullData)

\* DELETE /api/go/users/{id}
deleteUser(tok, f) ==
    LET del == IF f.db = 1 THEN [err |-> ErrConn, tbl |-> users, affected |-> 0]
               ELSE DeleteUserStmt(users, tok)
        gone == del.err = ErrNone /\ del.affected # 0
    IN /\ req' = Request("delete", tok, NoBody, Str_empty, "", "", f)
       /\ usersBefore' = users
       /\ WriteResponse(deleteUserEnvelope(del), f)
       /\ storeErr' = del.err
       /\ stmts' = 1
       /\ users' = del.tbl
       /\ deletedIds' = IF gone THEN deletedIds \cup {Int4In(tok)} ELSE deletedIds
       /\ createdAt' = IF gone THEN {c \in createdAt : c.id # Int4In(tok)} ELSE createdAt
       /\ createResp' = IF gone THEN {c \in createResp : c.id # Int4In(tok)} ELSE createResp
       /\ lastWrite' = IF gone /\ lastWrite.id = Int4In(tok) THEN NoWrite ELSE lastWrite
       /\ UNCHANGED <<nextId, clock, inflight>>

healthDBEnvelope(err) ==
    IF err # ErrNone
    THEN sendJSONResponse(FALSE, StatusInternalServerError, MsgPingFailed \o err, NullData)
    ELSE sendJSONResponse(TRUE, StatusOK, MsgHealthy, NullData)

\* GET /api/go/healthdb
healthDB(f) ==
    LET err == IF f.db = 1 THEN ErrConn ELSE ErrNone
    IN /\ req' = Request("health", NoToken, NoBody, Str_empty, "", "", f)
       /\ usersBefore' = users
       /\ WriteResponse(healthDBEnvelope(err), f)
       /\ storeErr' = err
       /\ stmts' = 1
       /\ UNCHANGED <<users, nextId, clock, createdAt, createResp, deletedIds,
                        inflight, lastWrite>>

\* The store's current date and CURRENT_TIMESTAMP advance.
Tick ==
    /\ clock < MaxClock
    /\ clock' = clock + 1
    /\ UNCHANGED <<users, nextId, req, resp, status, storeErr, stmts, usersBefore,
                   createdAt, createResp, deletedIds, headers, bodyWritten,
                   inflight, lastWrite>>

\* The service on a store that answers and with data that encodes.
Next ==
    \/ \E p \in FewListParams :
          enhancedRouter("GET", "GET", getUsers(p[1], p[2], p[3], NoFault))
    \/ \E tok \in IdTokens : enhancedRouter("GET", "GET", getUser(tok, NoFault))
    \/ \E body \in Bodies : enhancedRouter("POST", "POST", createUser(body, NoFault))
    \/ \E tok \in IdTokens, body \in Bodies :
          enhancedRouter("PUT", "PUT", updateUser(tok, body, NoFault))
    \/ \E tok \in IdTokens : enhancedRouter("DELETE", "DELETE", deleteUser(tok, NoFault))
    \/ enhancedRouter("GET", "GET", healthDB(NoFault))
    \/ \E tok \in IdTokens : enhancedRouter("OPTIONS", "DELETE", deleteUser(tok, NoFault))
    \/ Tick

Spec == Init /\ [][Next]_vars

\* The list request with its whole parameter space, over tables that creates
\* have filled.
NextList ==
    \/ \E p \in ListParams :
          enhancedRouter("GET", "GET", getUsers(p[1], p[2], p[3], NoFault))
    \/ \E body \in Bodies : enhancedRouter("POST", "POST", createUser(body, NoFault))
    \/ Tick

SpecList == Init /\ [][NextList]_vars

\* The service with store calls that fail and envelopes that do not encode,
\* on one day of the store's clock.
NextFault ==
    \/ \E p \in FewListParams, f \in Faults(3) :
          enhancedRouter("GET", "GET", getUsers(p[1], p[2], p[3], f))
    \/ \E tok \in IdTokens, f \in Faults(1) :
          enhancedRouter("GET", "GET", getUser(tok, f))
    \/ \E body \in FewBodies, f \in Faults(1) :
          enhancedRouter("POST", "POST", createUser(body, f))
    \/ \E tok \in IdTokens, body \in FewBodies, f \in Faults(2) :
          enhancedRouter("PUT", "PUT", updateUser(tok, body, f))
    \/ \E tok \in IdTokens, f \in Faults(1) :
          enhancedRouter("DELETE", "DELETE", deleteUser(tok, f))
    \/ \E f \in Faults(1) : enhancedRouter("GET", "GET", healthDB(f))
    \/ \E tok \in IdTokens, f \in Faults(1) :
          enhancedRouter("OPTIONS", "DELETE", deleteUser(tok, f))

SpecFault == Init /\ [][NextFault]_vars

\* The service with updates whose two statements are interleaved with the
\* statements of other requests, on one day of the store's clock.
NextRace ==
    \/ \E body \in RaceBodies : enhancedRouter("POST", "POST", createUser(body, NoFault))
    \/ \E tok \in IdTokens, body \in RaceBodies :
          enhancedRouter("PUT", "PUT", updateUserWrite(tok, body))
    \/ \E i \in 1..Len(inflight) : updateUserReread(i)
    \/ \E tok \in IdTokens : enhancedRouter("DELETE", "DELETE", deleteUser(tok, NoFault))

SpecRace == Init /\ [][NextRace]_vars

\* --------------------------------------------------------------- frontend
\* What a call of the frontend returns: the value, or that it threw.
Returned(v) == [threw |-> FALSE, value |-> v]
Threw == [threw |-> TRUE, value |-> <<>>]

\* ApiClient.handleResponse: a status outside 200..299 throws ApiError; the
\* parsed body is returned otherwise, and parsing an absent body throws.
handleResponse(code, written, envelope) ==
    IF code < 200 \/ code > 299 THEN Threw
    ELSE IF ~written THEN Threw
    ELSE Returned(envelope)

\* UserMapper.toEntity: the DTO with its two dates parsed and formatted.
toEntity(dto) ==
    [id |-> dto.id, name |-> dto.name, email |-> dto.email, role |-> dto.role,
     birth |-> dto.birth, age |-> dto.age, timestamp |-> dto.timestamp,
     formattedBirth |-> dto.birth.date, formattedTimestamp |-> dto.timestamp]

\* Mutant of toEntityList: the list is mapped without the guard, and map of
\* null throws.
toEntityList_NoGuard(dtos) ==
    IF dtos = NullData THEN Threw
    ELSE Returned([i \in 1..Len(dtos.rows) |-> toEntity(dtos.rows[i])])

\* UserMapper.toEntityList: if (!dtos) return []; return dtos.map(toEntity)
toEntityList(dtos) ==
    IF dtos = NullData THEN Returned(<<>>)
    ELSE Returned([i \in 1..Len(dtos.rows) |-> toEntity(dtos.rows[i])])

\* UserService.getUsers on the response of the list request: it throws when
\* the client threw or the envelope has success=false.
UserService_getUsers(code, written, envelope) ==
    LET response == handleResponse(code, written, envelope)
    IN IF response.threw THEN Threw
       ELSE IF ~response.value.success THEN Threw
       ELSE toEntityList(response.value.data)

\* ================================================================= claims
IdsOf(tbl) == {r.id : r \in tbl}
RowOf(tbl, id) == CHOOSE r \in tbl : r.id = id
RespRows == resp.data.rows
RespUser == resp.data.rows[1]
CreatedAt(id) == (CHOOSE c \in createdAt : c.id = id).timestamp
NotFoundEnvelope == sendJSONResponse(FALSE, StatusNotFound, MsgNotFound, NullData)

Contains(t, s) == \E i \in 0..(Len(t) - Len(s)) : SubSeq(t, i + 1, i + Len(s)) = s

\* The last request was a create or an update whose email is the email of
\* another record of the table.
EmailOfAnother ==
    /\ req.op \in {"create", "update"}
    /\ \E r \in usersBefore :
          /\ r.email = req.body.user.email
          /\ (req.op = "update" /\ Int4Ok(req.id)) => r.id # Int4In(req.id)

\* C1: no two stored records have the same email, and a create or an update
\* whose email is the email of another stored record is answered with an
\* error envelope and leaves the table as it was.
C1_EmailUnique ==
    /\ \A r1, r2 \in users : r1.email = r2.email => r1 = r2
    /\ EmailOfAnother =>
          /\ resp.success = FALSE
          /\ resp.code \in {StatusBadRequest, StatusNotFound, StatusInternalServerError}
          /\ resp.data = NullData
          /\ users = usersBefore

C1_Witness ==
    /\ EmailOfAnother
    /\ req.op = "create"
    /\ resp.message = ErrUnique

\* C2: every successful create returns an id that no earlier create returned
\* (deleted records included, whatever id the body carried), and an update
\* changes no stored id: the record written is the one of the path id, not
\* the one of the id in the body.
C2_IdNeverReused ==
    /\ IdsOf(users) \cap deletedIds = {}
    /\ \A r1, r2 \in users : r1.id = r2.id => r1 = r2
    /\ (req.op = "create" /\ resp.success) =>
          /\ RespUser.id \notin IdsOf(usersBefore) \cup deletedIds
          /\ RespUser.id \in IdsOf(users)
    /\ req.op = "update" =>
          /\ IdsOf(users) = IdsOf(usersBefore)
          /\ \A r \in users \ usersBefore : Int4Ok(req.id) /\ r.id = Int4In(req.id)
    /\ (req.op = "update" /\ resp.success) => RespUser.id = Int4In(req.id)

C2_Witness ==
    /\ req.op = "create"
    /\ resp.success
    /\ req.body.user.id # 0
    /\ deletedIds # {}

\* C3: the timestamp of a record is the store's time at its creation: the
\* create response and the stored record carry it whatever timestamp the
\* create body carried, and every stored record keeps it through updates.
C3_TimestampSetOnce ==
    /\ (req.op = "create" /\ resp.success) =>
          /\ RespUser.timestamp = req.at
          /\ RowOf(users, RespUser.id).timestamp = req.at
    /\ \A r \in users : r.id \in IdsOf(createdAt) /\ r.timestamp = CreatedAt(r.id)
    /\ (req.op = "update" /\ resp.success) =>
          RespUser.timestamp = CreatedAt(Int4In(req.id))

C3_Witness ==
    /\ req.op = "update"
    /\ resp.success
    /\ req.body.user.timestamp # 0
    /\ CreatedAt(Int4In(req.id)) < req.at

\* C4: every record a read returns (get-by-id or list) reports the age that
\* is the whole-year difference between its birth and the date of the read.
C4_AgeAsOfRead ==
    (req.op \in {"get", "list"} /\ resp.success) =>
        \A i \in 1..Len(RespRows) :
            RespRows[i].age = AgeOf(DateOf(RespRows[i].birth), req.at)

\* The last request was an update that was answered with success.
UpdateSucceeded == req.op = "update" /\ resp.success

\* C5 as stated: a successful update returns name, email, role and birth as
\* they are in the request body, id and timestamp as before the update, and
\* the age derived from the new birth; the stored record is the same.
C5_UpdateReturnsBody ==
    UpdateSucceeded =>
        /\ RespUser.name = req.body.user.name
        /\ RespUser.email = req.body.user.email
        /\ RespUser.role = req.body.user.role
        /\ RespUser.birth = req.body.user.birth
        /\ RespUser.id = Int4In(req.id)
        /\ RespUser.timestamp = RowOf(usersBefore, Int4In(req.id)).timestamp
        /\ RespUser.age = AgeOf(DateOf(req.body.user.birth), req.at)
        /\ RespUser = ScanRow(RowOf(users, Int4In(req.id)))

\* C5 as amended: a successful update returns the record as it is stored:
\* name, email and role of the body, birth the calendar date of the body's
\* birth at midnight UTC, id and timestamp as before the update, age derived
\* from the new birth as of the update; a get-by-id of the same id that
\* follows it returns the same record.
C5_UpdateReturnsStored ==
    [][ /\ UpdateSucceeded' =>
             (/\ RespUser.name = req.body.user.name
              /\ RespUser.email = req.body.user.email
              /\ RespUser.role = req.body.user.role
              /\ RespUser.birth = [date |-> req.body.user.birth.date, tod |-> 0]
              /\ resp.code = StatusOK
              /\ RespUser.id = Int4In(req.id)
              /\ RespUser.timestamp = RowOf(usersBefore, Int4In(req.id)).timestamp
              /\ RespUser.age = AgeOf(req.body.user.birth.date, req.at)
              /\ RespUser = ScanRow(RowOf(users, Int4In(req.id))))'
        /\ (UpdateSucceeded /\ req'.op = "get" /\ req'.id = req.id /\ req'.at = req.at) =>
             (resp'.success /\ resp'.data = resp.data)
      ]_vars

C5_Witness ==
    /\ UpdateSucceeded
    /\ req.body.user.birth.tod = 1
    /\ req.body.user.age # RespUser.age
    /\ RowOf(usersBefore, Int4In(req.id)).birth # RespUser.birth.date

\* The last request was an update with a decodable body, or a delete, whose
\* numeric id is the id of no stored record.
MissedTarget ==
    /\ req.op \in {"update", "delete"}
    /\ ~req.body.malformed
    /\ Int4Ok(req.id)
    /\ Int4In(req.id) \notin IdsOf(usersBefore)

C7_GetByIdOutcome ==
    req.op = "get" =>
        IF Int4Ok(req.id) /\ Int4In(req.id) \in IdsOf(usersBefore)
        THEN resp = sendJSONResponse(TRUE, StatusOK, MsgFetched,
                        UserData(ScanRow(RowOf(usersBefore, Int4In(req.id)))))
        ELSE resp = NotFoundEnvelope

\* C8: get-by-id of a created id returns the record of the create response
\* until that id is updated or deleted, and once an id has been deleted every
\* later get-by-id, update and delete of it is answered 404.
C8_Lifecycle ==
    /\ (/\ req.op = "get"
        /\ Int4Ok(req.id)
        /\ Int4In(req.id) \in IdsOf(createResp)) =>
          (resp.code = StatusOK /\ resp.data = UserData(RowOf(createResp, Int4In(req.id))))
    /\ (/\ req.op \in {"get", "update", "delete"}
        /\ ~req.body.malformed
        /\ Int4Ok(req.id)
        /\ Int4In(req.id) \in deletedIds
        /\ ~(req.op = "delete" /\ resp.success)) =>
          resp.code = StatusNotFound

\* The records of the table that contain the search text, letter case
\* disregarded, in name, email or role.
SubstringHits(tbl, s) ==
    {r \in tbl : \/ s = Str_empty
                 \/ Contains(LowerStr(r.name), LowerStr(s))
                 \/ Contains(LowerStr(r.email), LowerStr(s))
                 \/ Contains(LowerStr(r.role), LowerStr(s))}

\* C9: list returns exactly the stored records whose name, email or role
\* contains the search text as a case-insensitive substring, for every
\* search text, and every stored record when there is no search text.
C9_SearchIsSubstring ==
    req.op = "list" =>
        /\ resp.success
        /\ {RespRows[i].id : i \in 1..Len(RespRows)} =
               IdsOf(SubstringHits(usersBefore, req.search))

\* C10: with sort one of name, email, role, age, timestamp, list returns the
\* matching records ordered by that field, descending when order is "desc"
\* and ascending for every other order value.
C10_SortOrder ==
    (req.op = "list" /\ req.sort \in {"name", "email", "role", "age", "timestamp"}) =>
        /\ resp.success
        /\ {RespRows[i] : i \in 1..Len(RespRows)} =
               {ScanRow(r) : r \in {x \in usersBefore :
                                      \/ req.search = Str_empty
                                      \/ ILike(x.name, <<"%">> \o req.search \o <<"%">>)
                                      \/ ILike(x.email, <<"%">> \o req.search \o <<"%">>)
                                      \/ ILike(x.role, <<"%">> \o req.search \o <<"%">>)}}
        /\ \A i, j \in 1..Len(RespRows) : i < j =>
               /\ RespRows[i] # RespRows[j]
               /\ IF req.order = "desc"
                  THEN KeyLeq(req.sort, RespRows[j], RespRows[i])
                  ELSE KeyLeq(req.sort, RespRows[i], RespRows[j])

C10_Witness ==
    /\ req.op = "list"
    /\ req.sort = "name"
    /\ req.order = "DESC"
    /\ Len(RespRows) = 2
    /\ RespRows[1].name # RespRows[2].name

\* The stored records that the condition of the last list request selects.
ListMatches ==
    {r \in usersBefore : RowMatches(r, BuildQuery(req.search, req.sort, req.order))}

\* C11: when sort is absent or is none of the five recognized names (a
\* recognized name in another letter case included), list returns the
\* matching records by timestamp descending, whatever the order parameter is.
C11_DefaultOrder ==
    (req.op = "list" /\ req.sort \notin {"name", "email", "role", "age", "timestamp"}) =>
        /\ resp.success
        /\ {RespRows[i].id : i \in 1..Len(RespRows)} = IdsOf(ListMatches)
        /\ \A i, j \in 1..Len(RespRows) :
              i < j => RespRows[i].timestamp >= RespRows[j].timestamp

C11_Witness ==
    /\ req.op = "list"
    /\ req.sort = "Name"
    /\ req.order = "asc"
    /\ Len(RespRows) = 2
    /\ RespRows[1].timestamp > RespRows[2].timestamp

\* An empty JSON array.
EmptyArray == [kind |-> "list", rows |-> <<>>]

\* C12: when no stored record matches, list answers success=true, code 200
\* and data an empty array, not null.
C12_EmptyIsEmptyArray ==
    (req.op = "list" /\ ListMatches = {}) =>
        /\ resp.success
        /\ resp.code = StatusOK
        /\ resp.data = EmptyArray

\* C13: every envelope of every handler with success=false has data=null.
C13_ErrorHasNoData ==
    resp.success = FALSE => resp.data = NullData

C13_Witness ==
    /\ req.op = "update"
    /\ req.fault.db = 2
    /\ stmts = 2
    /\ resp.success = FALSE
    /\ resp.message = ErrConn
    /\ users # usersBefore

\* C14: the code field of the envelope on the wire equals the HTTP status
\* code sent for the response, the fallback envelope after an encoding
\* failure included.
C14_CodeIsStatus ==
    resp.code = status

\* The store returned an error to the handler of the last request, other
\* than no rows to a get-by-id.
StoreFailed ==
    /\ storeErr # ErrNone
    /\ ~(req.op = "get" /\ storeErr = ErrNoRows)

\* C15 as stated: a store error other than no rows on get-by-id is answered
\* with the envelope success=false, code 500, message the store's error
\* text, whatever the handler and whatever the error.
C15_StoreErrorVerbatim ==
    StoreFailed =>
        resp = sendJSONResponse(FALSE, StatusInternalServerError, storeErr, NullData)

\* C15 as amended: a store error other than no rows on get-by-id is answered
\* with one envelope with success=false, code 500, status 500 and null data;
\* its message is the store's error text, which health prefixes with
\* "Database connection failed: "; a uniqueness violation is answered as any
\* other store error is.
C15_StoreErrorIs500 ==
    StoreFailed =>
        /\ status = StatusInternalServerError
        /\ resp = sendJSONResponse(FALSE, StatusInternalServerError,
                      IF req.op = "health" THEN MsgPingFailed \o storeErr ELSE storeErr,
                      NullData)

C15_Witness ==
    /\ StoreFailed
    /\ req.op = "create"
    /\ storeErr = ErrUnique
    /\ resp.code = StatusInternalServerError
    /\ resp.message = ErrUnique

\* C16: a create or an update whose body fails to decode is answered with
\* the 400 BadRequest envelope, sends no statement to the store and leaves
\* the store as it was, whether or not the path id of the update is the id
\* of a record.
C16_BadBodyIs400 ==
    [][ (req'.op \in {"create", "update"} /\ req'.body.malformed) =>
            /\ resp' = sendJSONResponse(FALSE, StatusBadRequest, ErrDecode, NullData)
            /\ status' = StatusBadRequest
            /\ stmts' = 0
            /\ storeErr' = ErrNone
            /\ users' = users
            /\ nextId' = nextId
      ]_vars

C16_Witness ==
    /\ req.op = "update"
    /\ req.body.malformed
    /\ Int4Ok(req.id)
    /\ Int4In(req.id) \notin IdsOf(usersBefore)
    /\ usersBefore # {}
    /\ resp.code = StatusBadRequest

\* The last request was a create that was answered with success.
CreateSucceeded == req.op = "create" /\ resp.success

\* C17: a create whose body specifies no role stores and returns a record
\* whose role is "user".
C17_RoleDefaultsToUser ==
    (CreateSucceeded /\ req.body.user.role = Str_empty) =>
        /\ RespUser.role = Str_user
        /\ RowOf(users, RespUser.id).role = Str_user

\* C18 as stated: a successful update of id i leaves record i with name,
\* email, role and birth exactly as decoded from the body and with the id and
\* timestamp it had, and leaves every other record as it was.
C18_UpdateOverwrites ==
    UpdateSucceeded =>
        LET i == Int4In(req.id)
        IN /\ ScanRow(RowOf(users, i)).name = req.body.user.name
           /\ ScanRow(RowOf(users, i)).email = req.body.user.email
           /\ ScanRow(RowOf(users, i)).role = req.body.user.role
           /\ ScanRow(RowOf(users, i)).birth = req.body.user.birth
           /\ RowOf(users, i).timestamp = RowOf(usersBefore, i).timestamp
           /\ {r \in users : r.id # i} = {r \in usersBefore : r.id # i}

\* C18 as amended: a successful update of id i leaves record i with name,
\* email and role exactly as decoded from the body (an absent field as its
\* zero value), with birth the calendar date of the decoded birth, and with
\* the id and timestamp it had, and leaves every other record as it was.
C18_UpdateOverwritesDate ==
    UpdateSucceeded =>
        LET i == Int4In(req.id)
        IN /\ Cardinality({r \in users : r.id = i}) = 1
           /\ i \in IdsOf(usersBefore)
           /\ RowOf(users, i).name = req.body.user.name
           /\ RowOf(users, i).email = req.body.user.email
           /\ RowOf(users, i).role = req.body.user.role
           /\ RowOf(users, i).birth = req.body.user.birth.date
           /\ RowOf(users, i).timestamp = RowOf(usersBefore, i).timestamp
           /\ {r \in users : r.id # i} = {r \in usersBefore : r.id # i}

C18_Witness ==
    /\ UpdateSucceeded
    /\ req.body.user.role = Str_empty
    /\ RowOf(usersBefore, Int4In(req.id)).role # Str_empty
    /\ RowOf(users, Int4In(req.id)).role = Str_empty
    /\ req.body.user.timestamp # RowOf(users, Int4In(req.id)).timestamp

\* The last request was a delete whose id is the id of a stored record.
DeleteOfStored ==
    /\ req.op = "delete"
    /\ Int4Ok(req.id)
    /\ Int4In(req.id) \in IdsOf(usersBefore)

\* C19: a delete whose id is the id of a stored record removes that record
\* and no other and is answered with success=true, code 200 and data=null.
C19_DeleteRemovesOne ==
    DeleteOfStored =>
        /\ users = {r \in usersBefore : r.id # Int4In(req.id)}
        /\ Cardinality(users) = Cardinality(usersBefore) - 1
        /\ resp = sendJSONResponse(TRUE, StatusOK, MsgDeleted, NullData)

C19_Witness ==
    /\ DeleteOfStored
    /\ Cardinality(usersBefore) = 2
    /\ Cardinality(users) = 1
    /\ resp.success

\* C20: list, get-by-id and health leave the store as it was: the same
\* records with the same fields, and the same sequence value.
C20_ReadsAreReadOnly ==
    [][ (req'.op \in {"list", "get", "health"} /\ clock' = clock) =>
            (users' = users /\ nextId' = nextId) ]_vars

C20_Witness ==
    /\ req.op = "get"
    /\ resp.success
    /\ RespUser.age # AgeOf(RowOf(users, RespUser.id).birth, req.at)

\* C21: every response carries the three CORS headers, whatever the route
\* and the outcome; a request with method OPTIONS is answered 200 without a
\* body, no statement is sent to the store and the store is as it was.
C21_CorsOnEveryResponse ==
    [][ /\ req'.op # "none" => headers' = CORSHeaders
        /\ req'.op = "options" =>
              /\ status' = StatusOK
              /\ bodyWritten' = FALSE
              /\ stmts' = 0
              /\ users' = users
              /\ nextId' = nextId
      ]_vars

C21_Witness ==
    /\ req.op = "options"
    /\ users # {}
    /\ headers = CORSHeaders
    /\ ~bodyWritten

\* C22: when the list envelope has success=true and data=null, which is what
\* the backend sends for an empty result, UserService.getUsers returns an
\* empty list of users and does not throw.
C22_NullSafeList ==
    (req.op = "list" /\ resp.success /\ resp.data = NullData) =>
        UserService_getUsers(status, bodyWritten, resp) = Returned(<<>>)

C22_Witness ==
    /\ req.op = "list"
    /\ resp.success
    /\ resp.data = NullData
    /\ req.search # Str_empty
    /\ users # {}
    /\ UserService_getUsers(status, bodyWritten, resp).threw = FALSE

\* The texts a list query can have: with or without the search condition,
\* ordered by one of the five columns in one of the two directions.
ListQueryTexts ==
    { "SELECT id, name, email, role, birth, age, timestamp FROM users" \o w
          \o " ORDER BY " \o c \o " " \o d :
      w \in {"", " WHERE (name ILIKE $1 OR email ILIKE $1 OR role ILIKE $1)"},
      c \in {"name", "email", "role", "age", "timestamp"},
      d \in {"ASC", "DESC"} }

\* C23: whatever search, sort and order are, the text of the list query is
\* one of a fixed finite set of texts; the search value is the one bound
\* argument, between two %, and the text is the same for every non-empty
\* search value.
C23_QueryTextIsFixed ==
    req.op = "list" =>
        LET q == BuildQuery(req.search, req.sort, req.order)
        IN /\ q.text \in ListQueryTexts
           /\ req.search = Str_empty => q.args = <<>>
           /\ req.search # Str_empty =>
                 /\ q.args = << <<"%">> \o req.search \o <<"%">> >>
                 /\ q.text = BuildQuery(<<"z", "z">>, req.sort, req.order).text

C23_Witness ==
    /\ req.op = "list"
    /\ req.search = <<"a">>
    /\ req.sort = "Name"
    /\ req.order = "DESC"
    /\ BuildQuery(req.search, req.sort, req.order).text =
           "SELECT id, name, email, role, birth, age, timestamp FROM users WHERE (name ILIKE $1 OR email ILIKE $1 OR role ILIKE $1) ORDER BY timestamp DESC"

\* C27: list answers with success=true only when every record that matches
\* the query is in data, also when the store fails while the rows of the
\* result are iterated.
C27_ListIsComplete ==
    (req.op = "list" /\ resp.success) =>
        {RespRows[i].id : i \in 1..Len(RespRows)} = IdsOf(ListMatches)

\* C26: in every envelope a handler produces success is true exactly when
\* the code is 200 or 201; the code is 201 for a successful create and for
\* nothing else, 200 for every other success, and 400, 404 or 500 with
\* success=false.
C26_SuccessIffCode2xx ==
    bodyWritten =>
        /\ resp.code \in {StatusOK, StatusCreated, StatusBadRequest, StatusNotFound,
                          StatusInternalServerError}
        /\ resp.success <=> resp.code \in {StatusOK, StatusCreated}
        /\ resp.code = StatusCreated <=> (resp.success /\ req.op = "create")

C26_Witness ==
    /\ bodyWritten
    /\ req.op = "create"
    /\ resp.success
    /\ resp.code = StatusCreated
    /\ deletedIds # {}

\* The last answer is that of an update whose UPDATE affected a row and
\* whose SELECT has run.
UpdateReread == req.op = "update" /\ stmts = 2

\* C24: an update of id i whose record is deleted between its UPDATE and its
\* SELECT is answered with the 404 NotFound envelope.
C24_DeletedMidUpdateIs404 ==
    (UpdateReread /\ Int4In(req.id) \in deletedIds) =>
        (resp = NotFoundEnvelope /\ status = StatusNotFound)

\* C25: with updates of one record in flight together, the stored name,
\* email, role and birth of the record are those of the update whose UPDATE
\* ran last, as long as the record is stored; every such update whose record
\* is still stored at its SELECT is answered 200 with the record as it is
\* stored then, which need not be what its own body said.
C25_LastWriterWins ==
    /\ lastWrite.id \in IdsOf(users) =>
          /\ RowOf(users, lastWrite.id).name = lastWrite.user.name
          /\ RowOf(users, lastWrite.id).email = lastWrite.user.email
          /\ RowOf(users, lastWrite.id).role = lastWrite.user.role
          /\ RowOf(users, lastWrite.id).birth = DateOf(lastWrite.user.birth)
    /\ \A i \in 1..Len(inflight) :
          Int4In(inflight[i].id) \in IdsOf(users) \cup deletedIds
    /\ (UpdateReread /\ Int4In(req.id) \in IdsOf(usersBefore)) =>
          /\ resp.success
          /\ resp.code = StatusOK
          /\ RespUser = ScanRow(RowOf(usersBefore, Int4In(req.id)))

C25_Witness ==
    /\ UpdateReread
    /\ resp.success
    /\ inflight # <<>>
    /\ inflight[1].id = req.id
    /\ lastWrite.user = inflight[1].body.user
    /\ RespUser.name # req.body.user.name
    /\ RespUser.email # req.body.user.email
    /\ RespUser.name = lastWrite.user.name
    /\ RespUser.email = lastWrite.user.email

====
